---- MODULE Spec2Model ----
(***************************************************************************)
(* Model of aztec-wallet-sdk.                                              *)
(*                                                                         *)
(* The deployment orchestrator (src/src/contract-deploy.ts): one           *)
(* DeployMethod instance, the DeploySentTx handles its send() returns, the *)
(* account and the node it talks to.  Spec runs it with collaborators that *)
(* answer, SpecFaults with a node and an account that may fail.            *)
(*                                                                         *)
(* The wallet connection (src/unnamed/part_000): one ReownWalletSdk, the   *)
(* calls the application makes on it and the events its WalletConnect      *)
(* session delivers.  SpecWallet runs it.                                  *)
(*                                                                         *)
(* Every await of the source is a suspension point: the code between two   *)
(* awaits is one action.                                                   *)
(***************************************************************************)
EXTENDS Integers, Sequences, FiniteSets, TLC

(* ------------------------------ bounds -------------------------------- *)

\* account addresses are 0..MaxAddress
MaxAddress == 2
\* number of calls the application makes: send() on the DeployMethod and
\* wait() on the handles, together
MaxCalls == 4
\* number of calls on the ReownWalletSdk and session-event handlers that are
\* in flight at once
MaxOps == 2

(* ----------------------------- constants ------------------------------ *)

\* AztecAddress.ZERO
ZERO == 0
NoAddress == 0 - 1
Addresses == ZERO..MaxAddress

\* ProtocolContractAddress.*
ContractClassRegisterer == "ContractClassRegisterer"
ContractInstanceDeployer == "ContractInstanceDeployer"
ProtocolContractAddress == {ContractClassRegisterer, ContractInstanceDeployer}

\* contract class ids: the one getContractClassFromArtifact computes from the
\* deployed artifact, the two canonical protocol classes, and a foreign one
ArtifactClassId == "class:artifact"
RegistererClassId == "class:registerer"
DeployerClassId == "class:deployer"
ForeignClassId == "class:foreign"
NoInstance == "none"
NoArtifact == "none"

\* The node's registry does not change while a deployment is planned.  An
\* entry is "unknown" until the code first asks for it: the query then finds
\* any of the values the entry can have, and later queries find the same.
Unknown == "unknown"
ClassEntries == {"published", "absent"}
ContractEntries == {NoInstance, RegistererClassId, DeployerClassId, ForeignClassId}
\* The size of the artifact's packed bytecode is learnt the same way, when
\* bufferAsFields first packs it.
BytecodeSizes == {"fits", "oversize"}
Found(entry, entries) == IF entry = Unknown THEN entries ELSE {entry}

Errors ==
    {"ContractClassMismatch", "DeployerMismatch", "NothingToDeploy",
     "NotRegistered", "ArtifactNotFound", "TypeError", "BufferTooLarge"}

(* ------------------------------- state -------------------------------- *)

VARIABLES
    options,              \* DeployOptions given to the constructor
    constructorArtifact,  \* #constructorArtifact: TRUE iff getInitializer found one
    instanceClassId,      \* class id getContractInstanceFromDeployParams embeds
    packedBytecode,       \* whether the artifact's bytecode fits the packing limit
    accountAddress,       \* what account.getAddress() returns now
    nodeClass,            \* what the node holds for the instance's class id
    nodeContracts,        \* what the node holds at each protocol address
    contractCell,         \* the lazy #contract: [st, val, err]
    instance,             \* the instance the descriptor build is holding (line 58)
    txRequestCell,        \* the lazy #txRequest: [st, val, err]
    pc,                   \* position of the #txRequest body
    deployment,           \* {calls, capsules} of #getDeploymentFunctionCalls
    bootstrap,            \* {calls, capsules} of #getInitializeFunctionCalls
    registerer,           \* result of getRegistererContract, once fetched
    deployerContract,     \* result of getDeployerContract, once fetched
    sender,               \* account.getAddress() as deployInstance read it
    handles,              \* the DeploySentTx objects send() returned
    waits,                \* the wait() invocations
    contractRuns,         \* times the descriptor build body was entered
    txRequestRuns,        \* times the #txRequest body was entered
    nodeQueries,          \* node queries issued, by kind
    sendCalls,            \* account.sendTransaction invocations
    submissions,          \* requests the account handed to the network
    accountObservable,    \* #account: the selected account, NoAddress if undefined
    web3modal,            \* the lazy #getWeb3Modal: [st, val, err]
    session,              \* whether web3modal.getSession() finds a session
    METHODS_NOT_REQUIRING_CONFIRMATION,  \* the list of utils.js
    ops,                  \* the sdk calls and event handlers in flight, oldest first
    returned,             \* the sdk call or handler that returned in the last step
    \* sdk calls made and session events received
    lastAccountsChanged   \* address of the latest accountsChanged event

deployVars ==
    <<options, constructorArtifact, instanceClassId, packedBytecode,
      accountAddress, nodeClass, nodeContracts, contractCell, instance, txRequestCell,
      pc, deployment, bootstrap, registerer, deployerContract, sender, handles,
      waits, contractRuns, txRequestRuns, nodeQueries, sendCalls, submissions>>

walletVars ==
    <<accountObservable, web3modal, session,
      METHODS_NOT_REQUIRING_CONFIRMATION, ops, returned, lastAccountsChanged>>

vars == <<deployVars, walletVars>>

inputVars ==
    <<options, constructorArtifact, instanceClassId, packedBytecode, nodeClass,
      nodeContracts>>

planVars ==
    <<contractCell, instance, txRequestCell, pc, deployment, bootstrap,
      registerer, deployerContract, sender, contractRuns, txRequestRuns,
      nodeQueries>>

(* ------------------------------ values -------------------------------- *)

DeployOptions ==
    [universalDeploy : BOOLEAN, skipClassRegistration : BOOLEAN,
     skipPublicDeployment : BOOLEAN, skipInitialization : BOOLEAN]

NoContract == [address |-> NoAddress, contractClassId |-> NoInstance, deployer |-> NoAddress]
NoRequest == [calls |-> <<>>, capsules |-> <<>>, registerContracts |-> <<>>]
\* the {calls, capsules} a sub-plan is collecting; returned once its function
\* has returned them (lines 144, 161)
NoPlan == [calls |-> <<>>, capsules |-> <<>>, returned |-> FALSE]
NotFetched == [ok |-> FALSE, err |-> "unset", address |-> "unset", artifact |-> NoArtifact]

NotStarted(v) == [st |-> "notStarted", val |-> v, err |-> "none"]
InFlight(v) == [st |-> "inFlight", val |-> v, err |-> "none"]
Resolved(v) == [st |-> "resolved", val |-> v, err |-> "none"]
Rejected(v, e) == [st |-> "rejected", val |-> v, err |-> e]
Settled(cell) == cell.st \in {"resolved", "rejected"}

Call(fn, universal) == [fn |-> fn, isUniversalDeploy |-> universal]
Fns(calls) == [i \in DOMAIN calls |-> calls[i].fn]

(* ---------------------------- lazyValue ------------------------------- *)

\* lazyValue(fn)(): TRUE when this access has to run fn; otherwise the access
\* returns the promise the first access stored
lazyValue(cell) == cell.st = "notStarted"

\* line 57: #contract = lazyValue(...)
ContractMustRun == lazyValue(contractCell)

\* #txRequest without its lazyValue: every access runs the body again
TxRequestAlwaysRuns == TRUE

\* line 83: #txRequest = lazyValue(...)
TxRequestMustRun == lazyValue(txRequestCell)

(* ------------------------ descriptor build ---------------------------- *)

\* the address getContractInstanceFromDeployParams derives; of its inputs only
\* the deployer varies here, and the derivation is injective in it
InstanceAddress(deployer) == MaxAddress + 1 + deployer

\* lines 58-66
getContractInstanceFromDeployParams ==
    LET deployer == IF options.universalDeploy THEN ZERO ELSE accountAddress
    IN  [address |-> InstanceAddress(deployer),
         contractClassId |-> instanceClassId,
         deployer |-> deployer]

\* the build without the class id check of lines 70-74
ContractResultUnchecked(inst) == Resolved(inst)

\* lines 69-80: the outcome of the build for the instance in hand
ContractResult(inst) ==
    IF inst.contractClassId # ArtifactClassId
    THEN Rejected(NoContract, "ContractClassMismatch")
    ELSE Resolved(inst)

\* this.#contract(): the first access enters the body and runs it up to its
\* first await (line 58)
AccessContract ==
    IF ContractMustRun
    THEN /\ contractRuns' = contractRuns + 1
         /\ instance' = getContractInstanceFromDeployParams
         /\ contractCell' = InFlight(NoContract)
    ELSE UNCHANGED <<contractRuns, instance, contractCell>>

\* lines 69-81: the descriptor build finishes
ContractBuilt ==
    /\ contractCell.st = "inFlight"
    /\ contractCell' = ContractResult(instance)
    /\ UNCHANGED walletVars
    /\ UNCHANGED <<inputVars, accountAddress, instance, txRequestCell, pc,
                   deployment, bootstrap, registerer, deployerContract, sender,
                   handles, waits, contractRuns, txRequestRuns, nodeQueries,
                   sendCalls, submissions>>

(* --------------------- protocol contract resolver --------------------- *)

\* lines 275-278: the canonical protocol contracts, in the order of the array
CanonicalContracts ==
    << [classId |-> RegistererClassId, artifact |-> "artifact:ClassRegisterer"],
       [classId |-> DeployerClassId, artifact |-> "artifact:InstanceDeployer"] >>

\* Array.prototype.find: the first element that satisfies the test
FirstIndex(S) == CHOOSE i \in S : \A j \in S : i <= j

\* a lookup that takes the first canonical artifact whatever the class id
fetchFirstArtifact(contractClassId) == CanonicalContracts[1].artifact

\* lines 273-281
fetchProtocolContractArtifact(contractClassId) ==
    LET hits == {i \in DOMAIN CanonicalContracts :
                    CanonicalContracts[i].classId = contractClassId}
    IN  IF hits = {} THEN NoArtifact
        ELSE CanonicalContracts[FirstIndex(hits)].artifact

\* lines 259-271: the handle, or the error thrown, given what
\* node.getContract(address) returned
getProtocolContract(address, contractInstance) ==
        IF contractInstance = NoInstance
        THEN [ok |-> FALSE, err |-> "NotRegistered", address |-> address,
              artifact |-> NoArtifact]
        ELSE LET artifact == fetchProtocolContractArtifact(contractInstance)
             IN  IF artifact = NoArtifact
                 THEN [ok |-> FALSE, err |-> "ArtifactNotFound",
                       address |-> address, artifact |-> NoArtifact]
                 ELSE [ok |-> TRUE, err |-> "none", address |-> address,
                       artifact |-> artifact]

\* the methods a handle offers are the functions of its artifact
Methods(artifact) ==
    IF artifact = "artifact:ClassRegisterer" THEN {"register"}
    ELSE IF artifact = "artifact:InstanceDeployer" THEN {"deploy"}
    ELSE {}

(* --------------------------- call planner ----------------------------- *)

\* lines 198-222: {call, capsule}, or the error thrown
registerContractClass(contract) ==
    IF ~contract.ok THEN [ok |-> FALSE, err |-> contract.err]
    ELSE IF "register" \notin Methods(contract.artifact)
    THEN [ok |-> FALSE, err |-> "TypeError"]
    ELSE [ok |-> TRUE, err |-> "none"]

\* a flag that is never set
NeverUniversalDeploy(inst) == FALSE

\* line 230
IsUniversalDeploy(inst) == inst.deployer = ZERO

\* deployInstance without its deployer check
NoDeployerCheck(account, inst) == FALSE

\* lines 231-235: the deployer check
DeployerMismatch(account, inst) ==
    ~IsUniversalDeploy(inst) /\ account # inst.deployer

\* lines 224-243: the deploy interaction, or the error thrown
deployInstance(contract, account, inst) ==
    IF ~contract.ok THEN [ok |-> FALSE, err |-> contract.err]
    ELSE IF DeployerMismatch(account, inst)
    THEN [ok |-> FALSE, err |-> "DeployerMismatch"]
    ELSE IF "deploy" \notin Methods(contract.artifact)
    THEN [ok |-> FALSE, err |-> "TypeError"]
    ELSE [ok |-> TRUE, err |-> "none"]

\* line 120: register the class unless told to skip it
WantsClassRegistration == ~options.skipClassRegistration

\* line 136: deploy the instance unless told to skip it
WantsPublicDeployment == ~options.skipPublicDeployment

\* line 151 without its skipInitialization test
WantsInitializationUnskippable == constructorArtifact

\* line 151: run the constructor if there is one and it is not skipped
WantsInitialization == constructorArtifact /\ ~options.skipInitialization

AfterRegistration ==
    IF WantsPublicDeployment THEN "deployInstance" ELSE "initialize"

AfterContract ==
    IF WantsClassRegistration THEN "getContractClass" ELSE AfterRegistration

\* line 144: #getDeploymentFunctionCalls returns when nothing is left to do
Returning(plan, next) ==
    IF next = "initialize" THEN [plan EXCEPT !.returned = TRUE] ELSE plan

\* a planning error that is swallowed: the body goes on to return a request
Swallow(e) ==
    /\ txRequestCell' = Resolved(NoRequest)
    /\ pc' = "done"

\* a failure that is retried: the body goes back to its first node query
Retry(e) ==
    /\ txRequestCell' = txRequestCell
    /\ pc' = "getContractClass"

\* a throw anywhere in the #txRequest body rejects the stored promise
Throw(e) ==
    /\ txRequestCell' = Rejected(NoRequest, e)
    /\ pc' = "done"

\* line 117: #getDeploymentFunctionCalls resumes with the descriptor
AwaitContract ==
    /\ pc = "contract"
    /\ Settled(contractCell)
    /\ IF contractCell.st = "rejected"
       THEN Throw(contractCell.err) /\ UNCHANGED deployment
       ELSE /\ pc' = AfterContract
            /\ deployment' = Returning(deployment, AfterContract)
            /\ UNCHANGED txRequestCell
    /\ UNCHANGED walletVars
    /\ UNCHANGED <<inputVars, accountAddress, contractCell, instance,
                   bootstrap, registerer, deployerContract, sender, handles,
                   waits, contractRuns, txRequestRuns, nodeQueries, sendCalls,
                   submissions>>

\* lines 121-125: ask the node whether the class is published
GetContractClass ==
    /\ pc = "getContractClass"
    /\ nodeQueries' = [nodeQueries EXCEPT !.getContractClass = @ + 1]
    /\ \E entry \in Found(nodeClass, ClassEntries) :
          /\ nodeClass' = entry
          /\ LET alreadyRegistered == entry = "published"
                 next == IF ~alreadyRegistered THEN "registerContractClass"
                         ELSE AfterRegistration
             IN  /\ pc' = next
                 /\ deployment' = Returning(deployment, next)
    /\ UNCHANGED walletVars
    /\ UNCHANGED <<options, constructorArtifact, instanceClassId, packedBytecode,
                   nodeContracts, accountAddress, contractCell, instance,
                   txRequestCell, bootstrap, registerer,
                   deployerContract, sender, handles, waits, contractRuns,
                   txRequestRuns, sendCalls, submissions>>

\* lines 209-212: bufferAsFields throws when the bytecode exceeds
\* MAX_PACKED_PUBLIC_BYTECODE_SIZE_IN_FIELDS
bufferAsFields(size) == size = "fits"

\* lines 126-131
RegisterContractClass ==
    /\ pc = "registerContractClass"
    /\ \E size \in Found(packedBytecode, BytecodeSizes) :
          /\ packedBytecode' = size
          /\ IF ~bufferAsFields(size)
             THEN /\ Throw("BufferTooLarge")
                  /\ UNCHANGED <<deployment, nodeQueries, nodeContracts, registerer>>
             ELSE /\ nodeQueries' =
                        [nodeQueries EXCEPT !.getContract[ContractClassRegisterer] = @ + 1]
                  /\ \E entry \in Found(nodeContracts[ContractClassRegisterer],
                                        ContractEntries) :
                        /\ nodeContracts' =
                              [nodeContracts EXCEPT ![ContractClassRegisterer] = entry]
                        /\ registerer' =
                              getProtocolContract(ContractClassRegisterer, entry)
                  /\ LET registering == registerContractClass(registerer')
                     IN  IF ~registering.ok
                         THEN Throw(registering.err) /\ UNCHANGED deployment
                         ELSE /\ deployment' =
                                    Returning(
                                        [deployment EXCEPT
                                            !.calls = Append(@, Call("register", FALSE)),
                                            !.capsules = Append(@, "packedBytecode")],
                                        AfterRegistration)
                              /\ pc' = AfterRegistration
                              /\ UNCHANGED txRequestCell
    /\ UNCHANGED walletVars
    /\ UNCHANGED <<options, constructorArtifact, instanceClassId, nodeClass,
                   accountAddress, contractCell, instance, bootstrap,
                   deployerContract, sender, handles, waits, contractRuns,
                   txRequestRuns, sendCalls, submissions>>

\* lines 137-141
DeployInstance ==
    /\ pc = "deployInstance"
    /\ nodeQueries' = [nodeQueries EXCEPT !.getContract[ContractInstanceDeployer] = @ + 1]
    /\ \E entry \in Found(nodeContracts[ContractInstanceDeployer], ContractEntries) :
          /\ nodeContracts' = [nodeContracts EXCEPT ![ContractInstanceDeployer] = entry]
          /\ deployerContract' = getProtocolContract(ContractInstanceDeployer, entry)
    /\ sender' = IF deployerContract'.ok THEN accountAddress ELSE sender
    /\ LET deploymentInteraction ==
               deployInstance(deployerContract', accountAddress, contractCell.val)
       IN  IF ~deploymentInteraction.ok
           THEN Throw(deploymentInteraction.err) /\ UNCHANGED deployment
           ELSE /\ deployment' =
                      Returning(
                          [deployment EXCEPT !.calls =
                              Append(@, Call("deploy", IsUniversalDeploy(contractCell.val)))],
                          "initialize")
                /\ pc' = "initialize"
                /\ UNCHANGED txRequestCell
    /\ UNCHANGED walletVars
    /\ UNCHANGED <<options, constructorArtifact, instanceClassId, packedBytecode,
                   nodeClass,
                   accountAddress, contractCell, instance, bootstrap,
                   registerer, handles, waits, contractRuns, txRequestRuns,
                   sendCalls, submissions>>

\* lines 147-162
Initialize ==
    /\ pc = "initialize"
    /\ bootstrap' = IF WantsInitialization
                    THEN [bootstrap EXCEPT
                             !.calls = Append(@, Call("constructor", FALSE)),
                             !.returned = TRUE]
                    ELSE [bootstrap EXCEPT !.returned = TRUE]
    /\ pc' = "assemble"
    /\ UNCHANGED walletVars
    /\ UNCHANGED <<inputVars, accountAddress, contractCell, instance,
                   txRequestCell, deployment, registerer, deployerContract,
                   sender, handles, waits, contractRuns, txRequestRuns,
                   nodeQueries, sendCalls, submissions>>

\* a request that leaves out the contract to register
TransactionRequestUnregistered(dep, boot, contract) ==
    [calls |-> dep.calls \o boot.calls,
     capsules |-> dep.capsules \o boot.capsules,
     registerContracts |-> <<>>]

\* a request that leaves out the capsules
TransactionRequestNoCapsules(dep, boot, contract) ==
    [calls |-> dep.calls \o boot.calls,
     capsules |-> <<>>,
     registerContracts |-> <<contract>>]

\* the request with the two sub-plans concatenated the other way round
TransactionRequestBootstrapFirst(dep, boot, contract) ==
    [calls |-> boot.calls \o dep.calls,
     capsules |-> boot.capsules \o dep.capsules,
     registerContracts |-> <<contract>>]

\* lines 93-97: the request object
TransactionRequest(dep, boot, contract) ==
    [calls |-> dep.calls \o boot.calls,
     capsules |-> dep.capsules \o boot.capsules,
     registerContracts |-> <<contract>>]

\* #txRequest without the emptiness check of lines 87-91
NeverNothingToDeploy(dep, boot) == FALSE

\* line 87
NothingToDeploy(dep, boot) == Len(dep.calls) + Len(boot.calls) = 0

\* lines 87-97
Assemble ==
    /\ pc = "assemble"
    /\ IF NothingToDeploy(deployment, bootstrap)
       THEN Throw("NothingToDeploy")
       ELSE /\ txRequestCell' =
                  Resolved(TransactionRequest(deployment, bootstrap, contractCell.val))
            /\ pc' = "done"
    /\ UNCHANGED walletVars
    /\ UNCHANGED <<inputVars, accountAddress, contractCell, instance, deployment,
                   bootstrap, registerer, deployerContract, sender, handles,
                   waits, contractRuns, txRequestRuns, nodeQueries, sendCalls,
                   submissions>>

\* this.#txRequest(): the first access enters the body, which runs up to the
\* await of line 117
AccessTxRequest ==
    IF TxRequestMustRun
    THEN /\ txRequestRuns' = txRequestRuns + 1
         /\ txRequestCell' = InFlight(NoRequest)
         /\ pc' = "contract"
         /\ deployment' = NoPlan
         /\ bootstrap' = NoPlan
         /\ AccessContract
    ELSE UNCHANGED <<txRequestRuns, txRequestCell, pc, deployment, bootstrap,
                     contractRuns, instance, contractCell>>

(* ------------------------- lifecycle tracker -------------------------- *)

NoReceipt == [txHash |-> 0, status |-> "none"]
NoResolved == [address |-> NoAddress, built |-> 0]

\* lines 103-110: a new DeploySentTx, its transaction not yet submitted and
\* its contract resolution not yet started
DeploySentTx ==
    [tx |-> "requested", err |-> "none", request |-> NoRequest,
     contract |-> NotStarted(NoResolved), ctorCalls |-> 0, receiptWaits |-> 0]

\* lines 101-111
send ==
    /\ Len(handles) + Len(waits) < MaxCalls
    /\ AccessTxRequest
    /\ sendCalls' = sendCalls + 1
    /\ handles' = Append(handles, DeploySentTx)
    /\ UNCHANGED walletVars
    /\ UNCHANGED <<inputVars, accountAddress, registerer, deployerContract,
                   sender, waits, nodeQueries, submissions>>

\* account.sendTransaction(promise): the account submits the request once the
\* promise it was given resolves; a rejected promise rejects the tx hash
Submit(h) ==
    /\ handles[h].tx = "requested"
    /\ Settled(txRequestCell)
    /\ IF txRequestCell.st = "resolved"
       THEN /\ handles' = [handles EXCEPT ![h].tx = "pending",
                                          ![h].request = txRequestCell.val]
            /\ submissions' = submissions + 1
       ELSE /\ handles' = [handles EXCEPT ![h].tx = "failed",
                                          ![h].err = txRequestCell.err]
            /\ UNCHANGED submissions
    /\ UNCHANGED walletVars
    /\ UNCHANGED <<inputVars, accountAddress, planVars, waits, sendCalls>>

\* the node includes the transaction, successfully or not
Mine(h) ==
    /\ handles[h].tx = "pending"
    /\ \E outcome \in {"mined", "reverted"} :
          handles' = [handles EXCEPT ![h].tx = outcome,
                                     ![h].err = IF outcome = "mined" THEN "none"
                                                ELSE "TxReverted"]
    /\ UNCHANGED walletVars
    /\ UNCHANGED <<inputVars, accountAddress, planVars, waits, sendCalls,
                   submissions>>

\* the handle's contract without its lazyValue
ResolutionAlwaysRuns(h) == TRUE

\* line 106: the handle's contract is a lazyValue
ResolutionMustRun(h) == lazyValue(handles[h].contract)

\* lines 188-191: wait() is entered and calls super.wait
wait(h) ==
    /\ Len(handles) + Len(waits) < MaxCalls
    /\ waits' = Append(waits, [h |-> h, pc |-> "receipt", receipt |-> NoReceipt,
                               contract |-> NoResolved, err |-> "none"])
    /\ handles' = [handles EXCEPT ![h].receiptWaits = @ + 1]
    /\ UNCHANGED walletVars
    /\ UNCHANGED <<inputVars, accountAddress, planVars, sendCalls, submissions>>

\* SentTx.wait: the receipt of a mined transaction
Receipt(h) == [txHash |-> h, status |-> "success"]

\* SentTx.wait settles once the tx hash is known to have failed or the node
\* has a final receipt: it returns the receipt of a mined transaction and
\* throws otherwise
SuperWait(tx) ==
    IF tx.tx = "mined" THEN [ok |-> TRUE, err |-> "none"]
    ELSE [ok |-> FALSE, err |-> tx.err]

\* a wait() that goes on to this.contract() whatever super.wait did
ReachesContractAnyway(settled) == TRUE

\* lines 191-192: the await lets a throw of super.wait leave wait(), so that
\* this.contract() is reached with a receipt only
ReachesContract(settled) == settled.ok

\* lines 191-192: super.wait settles; with a receipt, wait() goes on to
\* this.contract(), whose first access enters the body of lines 106-109
ReceiptArrives(w) ==
    LET h == waits[w].h
    IN  /\ waits[w].pc = "receipt"
        /\ handles[h].tx \in {"failed", "mined", "reverted"}
        /\ IF ReachesContract(SuperWait(handles[h]))
           THEN /\ waits' = [waits EXCEPT ![w].pc = "contract",
                                          ![w].receipt = Receipt(h)]
                /\ IF ResolutionMustRun(h)
                   THEN /\ handles' = [handles EXCEPT ![h].contract = InFlight(NoResolved)]
                        /\ AccessContract
                   ELSE UNCHANGED <<handles, contractRuns, instance, contractCell>>
           ELSE /\ waits' = [waits EXCEPT ![w].pc = "failed",
                                          ![w].err = handles[h].err]
                /\ UNCHANGED <<handles, contractRuns, instance, contractCell>>
        /\ UNCHANGED walletVars
        /\ UNCHANGED <<inputVars, accountAddress, txRequestCell, pc, deployment,
                       bootstrap, registerer, deployerContract, sender,
                       txRequestRuns, nodeQueries, sendCalls, submissions>>

\* lines 107-108: with the descriptor, the post-deploy constructor is called
PostDeployCtor(h) ==
    /\ handles[h].contract.st = "inFlight"
    /\ Settled(contractCell)
    /\ IF contractCell.st = "rejected"
       THEN handles' = [handles EXCEPT
                           ![h].contract = Rejected(NoResolved, contractCell.err)]
       ELSE handles' = [handles EXCEPT
                           ![h].ctorCalls = @ + 1,
                           ![h].contract =
                               Resolved([address |-> contractCell.val.address,
                                         built |-> handles[h].ctorCalls + 1])]
    /\ UNCHANGED walletVars
    /\ UNCHANGED <<inputVars, accountAddress, planVars, waits, sendCalls,
                   submissions>>

\* lines 192-193: wait() returns the receipt with the contract
WaitReturns(w) ==
    LET h == waits[w].h
    IN  /\ waits[w].pc = "contract"
        /\ Settled(handles[h].contract)
        /\ IF handles[h].contract.st = "resolved"
           THEN waits' = [waits EXCEPT ![w].pc = "done",
                                       ![w].contract = handles[h].contract.val]
           ELSE waits' = [waits EXCEPT ![w].pc = "failed",
                                       ![w].err = handles[h].contract.err]
        /\ UNCHANGED walletVars
        /\ UNCHANGED <<inputVars, accountAddress, planVars, handles, sendCalls,
                       submissions>>

\* lines 183-186: deployed() is wait() narrowed to the contract
deployed(w) == waits[w].contract

(* ---------------------------- environment ----------------------------- *)

\* account.getAddress() is read at line 65, when the descriptor build starts
\* without universalDeploy, and at line 231, when deployInstance checks a
\* deployer that is not the zero address
ReadsAddress ==
    /\ ~options.universalDeploy
    /\ \/ pc = "idle"
       \/ /\ WantsPublicDeployment
          /\ pc \in {"contract", "getContractClass", "registerContractClass",
                     "deployInstance"}

\* the account reports another address; a change that no later read can
\* observe is left out
switchAccount ==
    /\ ReadsAddress
    /\ \E a \in Addresses \ {accountAddress} : accountAddress' = a
    /\ UNCHANGED walletVars
    /\ UNCHANGED <<inputVars, planVars, handles, waits, sendCalls, submissions>>

(* ------------------------- wallet connection -------------------------- *)

\* the methods a request can name, one of them the one #getSelectedAccount
\* sends, and the names a session event can carry
RpcMethods == {"aztec_accounts", "aztec_sendTransaction"}
EventNames == {"accountsChanged", "chainChanged"}

\* the addresses a wallet reports: addresses[0], NoAddress for an empty list
CompleteAddresses == 1..MaxAddress
Reported == CompleteAddresses \cup {NoAddress}

NoModal == "none"
WalletConnectModalSign == "WalletConnectModalSign"

\* One call on the sdk, or one run of the session-event handler, with its
\* locals: the method of the request() it made, the event name, the address
\* it holds, the AbortController of its request() ("none" until created),
\* the calls it made to #onRequest and to web3modal.request, what it
\* returned or threw.  stale: a disconnect completed, or the session was
\* deleted or expired, after reconnect() was called or the event received.
Op(kind, at) ==
    [kind |-> kind, pc |-> at, method |-> "none", name |-> "none",
     address |-> NoAddress, abort |-> "none", confirmations |-> 0,
     forwarded |-> 0, result |-> NoAddress, err |-> "none", stale |-> FALSE]

NoOp == Op("none", "none")

Completed(op) == op.pc \in {"done", "failed"}

Returns(op, value) == [op EXCEPT !.pc = "done", !.result = value]
Throws(op, e) == [op EXCEPT !.pc = "failed", !.err = e]

Remove(seq, i) == SubSeq(seq, 1, i - 1) \o SubSeq(seq, i + 1, Len(seq))

\* operation i goes on as op: still in flight it keeps its place; when it has
\* returned or thrown it leaves the operations in flight, and `returned`
\* shows it until the next step
Continue(i, op) ==
    IF Completed(op)
    THEN /\ ops' = Remove(ops, i)
         /\ returned' = op
    ELSE /\ ops' = [ops EXCEPT ![i] = op]
         /\ returned' = NoOp

\* this.#getWeb3Modal(): the first access enters the body of lines 64-100,
\* which runs up to the await of line 68
getWeb3Modal ==
    IF lazyValue(web3modal)
    THEN web3modal' = InFlight(NoModal)
    ELSE UNCHANGED web3modal

\* await this.#getWeb3Modal(): the caller waits at `at` for the modal, and is
\* at `next`, the call it makes on the modal, when the modal exists already
AwaitingModal(at, next) ==
    IF web3modal.st = "resolved" THEN next ELSE at

\* lines 69-99: the modal exists and the three session handlers are registered
ModalCreated ==
    /\ web3modal.st = "inFlight"
    /\ web3modal' = Resolved(WalletConnectModalSign)
    /\ returned' = NoOp
    /\ UNCHANGED <<accountObservable, session, ops, lastAccountsChanged, METHODS_NOT_REQUIRING_CONFIRMATION>>
    /\ UNCHANGED deployVars

\* a request() that asks for confirmation whatever the method
AlwaysRequiresConfirmation(method) == TRUE

\* line 184
RequiresConfirmation(method) ==
    method \notin METHODS_NOT_REQUIRING_CONFIRMATION

\* lines 198-200: finally { abortController.abort() }
Finally(op) == [op EXCEPT !.abort = "aborted"]

\* lines 183-189: request() creates its AbortController, calls #onRequest
\* for a method that requires confirmation, and enters the try block, where
\* it waits for #getSession(); threw: the callback threw
EnterRequest(op, method, threw) ==
    LET made == [op EXCEPT !.method = method, !.abort = "live"]
        waiting == AwaitingModal("req.modal", "req.getSession")
    IN  IF RequiresConfirmation(method)
        THEN LET asked == [made EXCEPT !.confirmations = @ + 1]
             IN  IF threw THEN Throws(asked, "CallbackThrew")
                 ELSE [asked EXCEPT !.pc = waiting]
        ELSE [made EXCEPT !.pc = waiting]

\* the outcomes of the callback: it can throw only when it is called
CallbackOutcomes(method) ==
    IF RequiresConfirmation(method) THEN BOOLEAN ELSE {FALSE}

\* lines 182-189: the application calls request()
request(method) ==
    /\ Len(ops) < MaxOps
    /\ \E threw \in CallbackOutcomes(method) :
          LET op == EnterRequest(Op("request", "req.modal"), method, threw)
          IN  IF Completed(op)
              THEN /\ returned' = op
                   /\ UNCHANGED <<ops, web3modal>>
              ELSE /\ ops' = Append(ops, op)
                   /\ getWeb3Modal
                   /\ returned' = NoOp
    /\ UNCHANGED <<accountObservable, session, lastAccountsChanged,
                   METHODS_NOT_REQUIRING_CONFIRMATION>>
    /\ UNCHANGED deployVars

\* lines 109-110
connect ==
    /\ Len(ops) < MaxOps
    /\ ops' = Append(ops, Op("connect", AwaitingModal("con.modal", "con.connect")))
    /\ getWeb3Modal
    /\ lastAccountsChanged' = NoAddress
    /\ returned' = NoOp
    /\ UNCHANGED <<accountObservable, session, METHODS_NOT_REQUIRING_CONFIRMATION>>
    /\ UNCHANGED deployVars

\* lines 126-127, 156-157, 173-174
reconnect ==
    /\ Len(ops) < MaxOps
    /\ ops' = Append(ops, Op("reconnect", AwaitingModal("sel.modal", "sel.getSession")))
    /\ getWeb3Modal
    /\ lastAccountsChanged' = NoAddress
    /\ returned' = NoOp
    /\ UNCHANGED <<accountObservable, session, METHODS_NOT_REQUIRING_CONFIRMATION>>
    /\ UNCHANGED deployVars

\* lines 144-145, 173-174
disconnect ==
    /\ Len(ops) < MaxOps
    /\ ops' = Append(ops, Op("disconnect", AwaitingModal("dis.modal", "dis.getSession")))
    /\ getWeb3Modal
    /\ lastAccountsChanged' = NoAddress
    /\ returned' = NoOp
    /\ UNCHANGED <<accountObservable, session, METHODS_NOT_REQUIRING_CONFIRMATION>>
    /\ UNCHANGED deployVars

\* lines 110-111, 174-175: an awaited #getWeb3Modal() hands over the modal;
\* connect() then calls web3modal.connect, #getSession() web3modal.getSession
AwaitModal(i) ==
    /\ ops[i].pc \in {"con.modal", "sel.modal", "req.modal", "dis.modal"}
    /\ web3modal.st = "resolved"
    /\ ops' = [ops EXCEPT ![i].pc =
                  IF @ = "con.modal" THEN "con.connect"
                  ELSE IF @ = "sel.modal" THEN "sel.getSession"
                  ELSE IF @ = "req.modal" THEN "req.getSession"
                  ELSE "dis.getSession"]
    /\ returned' = NoOp
    /\ UNCHANGED <<accountObservable, web3modal, session, lastAccountsChanged, METHODS_NOT_REQUIRING_CONFIRMATION>>
    /\ UNCHANGED deployVars

\* lines 111-112: web3modal.connect settles: the user approved a session, and
\* connect() calls reconnect(), or closed the modal, and connect() throws
ModalConnect(i) ==
    /\ ops[i].pc = "con.connect"
    /\ \E approved \in BOOLEAN :
          IF approved
          THEN /\ session' = TRUE
               /\ Continue(i, [ops[i] EXCEPT !.pc = "sel.getSession",
                                             !.stale = FALSE])
          ELSE /\ Continue(i, Throws(ops[i], "ConnectRejected"))
               /\ UNCHANGED session
    /\ UNCHANGED <<accountObservable, web3modal, lastAccountsChanged,
                   METHODS_NOT_REQUIRING_CONFIRMATION>>
    /\ UNCHANGED deployVars

\* lines 175-176: web3modal.getSession() settles, and its caller goes on.
\* #getSelectedAccount (lines 157-164) returns undefined without a session
\* and calls request("aztec_accounts") with one; request (lines 189-196)
\* throws "no session" without one and forwards the request with one;
\* disconnect (lines 145-151) calls web3modal.disconnect with one.
getSession(i) ==
    /\ ops[i].pc \in {"sel.getSession", "req.getSession", "dis.getSession"}
    /\ IF ops[i].pc = "sel.getSession"
       THEN IF ~session
            THEN Continue(i, [ops[i] EXCEPT !.pc = "sel.none"])
            ELSE \E threw \in CallbackOutcomes("aztec_accounts") :
                    Continue(i, EnterRequest(ops[i], "aztec_accounts", threw))
       ELSE IF ops[i].pc = "req.getSession"
       THEN IF ~session
            THEN Continue(i, Finally(Throws(ops[i], "no session")))
            ELSE Continue(i, [ops[i] EXCEPT !.pc = "req.wallet",
                                            !.forwarded = @ + 1])
       ELSE Continue(i, [ops[i] EXCEPT !.pc =
                            IF session THEN "dis.disconnect" ELSE "dis.set"])
    /\ UNCHANGED <<accountObservable, web3modal, session, lastAccountsChanged, METHODS_NOT_REQUIRING_CONFIRMATION>>
    /\ UNCHANGED deployVars

\* what a wallet can answer to a method: to aztec_accounts its addresses
Answers(method) ==
    IF method = "aztec_accounts" THEN Reported ELSE {NoAddress}

\* lines 192-200, 165-170: web3modal.request settles.  A rejection leaves
\* request() through the finally block, and its caller with it; a result is
\* returned through the finally block: to the application, or to
\* #getSelectedAccount, which returns addresses[0] as a CompleteAddress.
WalletResponds(i) ==
    /\ ops[i].pc = "req.wallet"
    /\ \/ Continue(i, Finally(Throws(ops[i], "WalletRejected")))
       \/ \E a \in Answers(ops[i].method) :
             IF ops[i].kind = "request"
             THEN Continue(i, Finally(Returns(ops[i], a)))
             ELSE Continue(i, [Finally(ops[i]) EXCEPT
                                  !.address = a,
                                  !.pc = IF a = NoAddress THEN "sel.none"
                                         ELSE "sel.account"])
    /\ UNCHANGED <<accountObservable, web3modal, session, lastAccountsChanged, METHODS_NOT_REQUIRING_CONFIRMATION>>
    /\ UNCHANGED deployVars

\* a connect() that returns whatever reconnect() yields
connectUnchecked(op, account) == Returns(op, account)

\* lines 112-116
connectResult(op, account) ==
    IF account = NoAddress THEN Throws(op, "No accounts found")
    ELSE Returns(op, account)

\* reconnect() returns to the application, or to the connect() that called it
reconnectReturns(op, account) ==
    IF op.kind = "connect" THEN connectResult(op, account)
    ELSE Returns(op, account)

\* lines 128-131: reconnect() without an address
reconnectNone(i) ==
    /\ ops[i].pc = "sel.none"
    /\ accountObservable' = NoAddress
    /\ Continue(i, reconnectReturns(ops[i], NoAddress))
    /\ UNCHANGED <<web3modal, session, lastAccountsChanged,
                   METHODS_NOT_REQUIRING_CONFIRMATION>>
    /\ UNCHANGED deployVars

\* lines 132-138: reconnect() with the account built for the address
reconnectAccount(i) ==
    /\ ops[i].pc = "sel.account"
    /\ accountObservable' = ops[i].address
    /\ Continue(i, reconnectReturns(ops[i], ops[i].address))
    /\ UNCHANGED <<web3modal, session, lastAccountsChanged,
                   METHODS_NOT_REQUIRING_CONFIRMATION>>
    /\ UNCHANGED deployVars

\* a reconnect() under way, or a handler of accountsChanged: it will set the
\* account
SetsAccount(op) ==
    \/ op.kind \in {"reconnect", "event"}
    \/ op.kind = "connect" /\ op.pc \notin {"con.modal", "con.connect"}

\* the operations in flight when the account is cleared
MarkStale(os) ==
    [i \in DOMAIN os |->
        IF SetsAccount(os[i]) THEN [os[i] EXCEPT !.stale = TRUE] ELSE os[i]]

\* lines 147-151: web3modal.disconnect settles: the session is gone, or the
\* call failed and disconnect() throws
ModalDisconnect(i) ==
    /\ ops[i].pc = "dis.disconnect"
    /\ \/ /\ session' = FALSE
          /\ Continue(i, [ops[i] EXCEPT !.pc = "dis.set"])
       \/ /\ Continue(i, Throws(ops[i], "DisconnectFailed"))
          /\ UNCHANGED session
    /\ UNCHANGED <<accountObservable, web3modal, lastAccountsChanged,
                   METHODS_NOT_REQUIRING_CONFIRMATION>>
    /\ UNCHANGED deployVars

\* line 153: disconnect() clears the account and returns
disconnected(i) ==
    /\ ops[i].pc = "dis.set"
    /\ accountObservable' = NoAddress
    /\ ops' = MarkStale(Remove(ops, i))
    /\ returned' = Returns(ops[i], NoAddress)
    /\ UNCHANGED <<web3modal, session, lastAccountsChanged,
                   METHODS_NOT_REQUIRING_CONFIRMATION>>
    /\ UNCHANGED deployVars

\* lines 76-79: the wallet deleted the session
onSessionDelete ==
    /\ web3modal.st = "resolved"
    /\ session
    /\ session' = FALSE
    /\ accountObservable' = NoAddress
    /\ ops' = MarkStale(ops)
    /\ lastAccountsChanged' = NoAddress
    /\ returned' = NoOp
    /\ UNCHANGED <<web3modal, METHODS_NOT_REQUIRING_CONFIRMATION>>
    /\ UNCHANGED deployVars

\* lines 80-83: the session expired
onSessionExpire ==
    /\ web3modal.st = "resolved"
    /\ session
    /\ session' = FALSE
    /\ accountObservable' = NoAddress
    /\ ops' = MarkStale(ops)
    /\ lastAccountsChanged' = NoAddress
    /\ returned' = NoOp
    /\ UNCHANGED <<web3modal, METHODS_NOT_REQUIRING_CONFIRMATION>>
    /\ UNCHANGED deployVars

\* what an event carries: accountsChanged the new addresses
EventData(name) ==
    IF name = "accountsChanged" THEN CompleteAddresses ELSE {NoAddress}

\* nothing that sets or clears the account is in flight, but for the handlers
\* of the accountsChanged events received since that was last so
OnlyAccountsChanged ==
    \/ \A j \in DOMAIN ops : ops[j].kind = "request"
    \/ lastAccountsChanged # NoAddress

\* lines 84-85: the session delivers an event; the handler starts and waits
\* for its import
onSessionEvent(name) ==
    /\ Len(ops) < MaxOps
    /\ web3modal.st = "resolved"
    /\ session
    /\ \E newAddress \in EventData(name) :
          /\ ops' = Append(ops, [Op("event", "evt.import") EXCEPT
                                    !.name = name, !.address = newAddress])
          /\ lastAccountsChanged' =
                IF name # "accountsChanged" THEN lastAccountsChanged
                ELSE IF OnlyAccountsChanged THEN newAddress
                ELSE NoAddress
    /\ returned' = NoOp
    /\ UNCHANGED <<accountObservable, web3modal, session, METHODS_NOT_REQUIRING_CONFIRMATION>>
    /\ UNCHANGED deployVars

\* line 87
IsAccountsChanged(name) == name = "accountsChanged"

\* lines 86-96: the handler returns on an event of another name, and builds
\* the account for the new address otherwise
eventName(i) ==
    /\ ops[i].pc = "evt.import"
    /\ Continue(i, IF IsAccountsChanged(ops[i].name)
                   THEN [ops[i] EXCEPT !.pc = "evt.account"]
                   ELSE Returns(ops[i], NoAddress))
    /\ UNCHANGED <<accountObservable, web3modal, session, lastAccountsChanged, METHODS_NOT_REQUIRING_CONFIRMATION>>
    /\ UNCHANGED deployVars

\* lines 91-97: the handler sets the account it built
accountsChanged(i) ==
    /\ ops[i].pc = "evt.account"
    /\ accountObservable' = ops[i].address
    /\ Continue(i, Returns(ops[i], ops[i].address))
    /\ UNCHANGED <<web3modal, session, lastAccountsChanged,
                   METHODS_NOT_REQUIRING_CONFIRMATION>>
    /\ UNCHANGED deployVars

\* lines 39-41
getAccount == accountObservable

(* --------------------------- specification ---------------------------- *)

\* lines 41-99 of contract-deploy.ts: a DeployMethod as constructed, nothing
\* computed yet, and what the node holds not yet asked for
DeployMethod ==
    /\ packedBytecode = Unknown
    /\ nodeClass = Unknown
    /\ nodeContracts = [a \in ProtocolContractAddress |-> Unknown]
    /\ contractCell = NotStarted(NoContract)
    /\ instance = NoContract
    /\ txRequestCell = NotStarted(NoRequest)
    /\ pc = "idle"
    /\ deployment = NoPlan
    /\ bootstrap = NoPlan
    /\ registerer = NotFetched
    /\ deployerContract = NotFetched
    /\ sender = NoAddress
    /\ handles = <<>>
    /\ waits = <<>>
    /\ contractRuns = 0
    /\ txRequestRuns = 0
    /\ nodeQueries = [getContractClass |-> 0,
                      getContract |-> [a \in ProtocolContractAddress |-> 0]]
    /\ sendCalls = 0
    /\ submissions = 0

\* lines 30-62 of part_000: a ReownWalletSdk as constructed
ReownWalletSdk ==
    /\ accountObservable = NoAddress
    /\ web3modal = NotStarted(NoModal)
    /\ ops = <<>>
    /\ returned = NoOp
    /\ lastAccountsChanged = NoAddress

Init ==
    /\ options \in DeployOptions
    /\ constructorArtifact \in BOOLEAN
    /\ instanceClassId \in {ArtifactClassId, ForeignClassId}
    /\ accountAddress \in Addresses
    /\ DeployMethod
    /\ ReownWalletSdk
    /\ session = FALSE
    /\ METHODS_NOT_REQUIRING_CONFIRMATION = {}

Next ==
    \/ send
    \/ ContractBuilt
    \/ AwaitContract
    \/ GetContractClass
    \/ RegisterContractClass
    \/ DeployInstance
    \/ Initialize
    \/ Assemble
    \/ \E h \in DOMAIN handles : Submit(h)
    \/ \E h \in DOMAIN handles : Mine(h)
    \/ \E h \in DOMAIN handles : wait(h)
    \/ \E w \in DOMAIN waits : ReceiptArrives(w)
    \/ \E h \in DOMAIN handles : PostDeployCtor(h)
    \/ \E w \in DOMAIN waits : WaitReturns(w)
    \/ switchAccount

Spec == Init /\ [][Next]_vars

\* the collaborators fail: a node query is rejected, or the account's
\* submission is.  The code has no catch: the rejection leaves the awaiting
\* function as a throw (lines 122, 260) or rejects the handle's tx hash
\* (lines 102-105).

\* lines 121-124: node.getContractClass rejects
GetContractClassFails ==
    /\ pc = "getContractClass"
    /\ nodeQueries' = [nodeQueries EXCEPT !.getContractClass = @ + 1]
    /\ Throw("NodeError")
    /\ UNCHANGED walletVars
    /\ UNCHANGED <<inputVars, accountAddress, contractCell, instance,
                   deployment, bootstrap, registerer, deployerContract, sender,
                   handles, waits, contractRuns, txRequestRuns, sendCalls,
                   submissions>>

\* lines 213, 245-249, 260: node.getContract rejects for the class registerer
GetRegistererFails ==
    /\ pc = "registerContractClass"
    /\ \E size \in Found(packedBytecode, BytecodeSizes) :
          /\ bufferAsFields(size)
          /\ packedBytecode' = size
    /\ nodeQueries' =
          [nodeQueries EXCEPT !.getContract[ContractClassRegisterer] = @ + 1]
    /\ Throw("NodeError")
    /\ UNCHANGED walletVars
    /\ UNCHANGED <<options, constructorArtifact, instanceClassId, nodeClass,
                   nodeContracts, accountAddress, contractCell, instance,
                   deployment, bootstrap, registerer, deployerContract, sender,
                   handles, waits, contractRuns, txRequestRuns, sendCalls,
                   submissions>>

\* lines 228, 252-256, 260: node.getContract rejects for the instance deployer
GetDeployerFails ==
    /\ pc = "deployInstance"
    /\ nodeQueries' =
          [nodeQueries EXCEPT !.getContract[ContractInstanceDeployer] = @ + 1]
    /\ Throw("NodeError")
    /\ UNCHANGED walletVars
    /\ UNCHANGED <<inputVars, accountAddress, contractCell, instance,
                   deployment, bootstrap, registerer, deployerContract, sender,
                   handles, waits, contractRuns, txRequestRuns, sendCalls,
                   submissions>>

\* lines 102-105: the account got the request and its submission is
\* rejected: the tx hash of the handle rejects with the node's reason
SubmitRejected(h) ==
    /\ handles[h].tx = "requested"
    /\ txRequestCell.st = "resolved"
    /\ handles' = [handles EXCEPT ![h].tx = "failed",
                                  ![h].err = "SubmissionRejected"]
    /\ submissions' = submissions + 1
    /\ UNCHANGED walletVars
    /\ UNCHANGED <<inputVars, accountAddress, planVars, waits, sendCalls>>

NextFaults ==
    \/ Next
    \/ GetContractClassFails
    \/ GetRegistererFails
    \/ GetDeployerFails
    \/ \E h \in DOMAIN handles : SubmitRejected(h)

SpecFaults == Init /\ [][NextFaults]_vars

\* the sdk on a page that may hold a session from an earlier visit; the list
\* of utils.js holds aztec_accounts or does not, and aztec_sendTransaction
\* stands for the methods it does not hold; no deployment is under way
InitWallet ==
    /\ options = [universalDeploy |-> FALSE, skipClassRegistration |-> FALSE,
                  skipPublicDeployment |-> FALSE, skipInitialization |-> FALSE]
    /\ constructorArtifact = TRUE
    /\ instanceClassId = ArtifactClassId
    /\ accountAddress = ZERO
    /\ DeployMethod
    /\ ReownWalletSdk
    /\ session \in BOOLEAN
    /\ METHODS_NOT_REQUIRING_CONFIRMATION \in {{}, {"aztec_accounts"}}

NextWallet ==
    \/ \E method \in RpcMethods : request(method)
    \/ connect
    \/ reconnect
    \/ disconnect
    \/ ModalCreated
    \/ \E i \in DOMAIN ops : AwaitModal(i)
    \/ \E i \in DOMAIN ops : ModalConnect(i)
    \/ \E i \in DOMAIN ops : getSession(i)
    \/ \E i \in DOMAIN ops : WalletResponds(i)
    \/ \E i \in DOMAIN ops : reconnectNone(i)
    \/ \E i \in DOMAIN ops : reconnectAccount(i)
    \/ \E i \in DOMAIN ops : ModalDisconnect(i)
    \/ \E i \in DOMAIN ops : disconnected(i)
    \/ onSessionDelete
    \/ onSessionExpire
    \/ \E name \in EventNames : onSessionEvent(name)
    \/ \E i \in DOMAIN ops : eventName(i)
    \/ \E i \in DOMAIN ops : accountsChanged(i)

SpecWallet == InitWallet /\ [][NextWallet]_vars

(* ------------------------------ claims -------------------------------- *)

Submitted(h) == handles[h].tx \in {"pending", "mined", "reverted"}
WaitsOn(h) == {w \in DOMAIN waits : waits[w].h = h}

\* C1: every TransactionRequest produced has at least one call; when the two
\* sub-plans have both returned and hold no call between them, the request
\* promise is rejected with the nothing-to-deploy error and no request object
\* exists, in the cell or in any handle.
C1_CallsNeverEmpty ==
    /\ txRequestCell.st = "resolved" =>
          /\ Len(txRequestCell.val.calls) > 0
          /\ txRequestCell.val.calls = deployment.calls \o bootstrap.calls
    /\ \A h \in DOMAIN handles :
          handles[h].request # NoRequest => Len(handles[h].request.calls) > 0
    /\ ( /\ pc = "done"
         /\ deployment.returned
         /\ bootstrap.returned
         /\ Len(deployment.calls) + Len(bootstrap.calls) = 0 ) =>
          /\ txRequestCell = Rejected(NoRequest, "NothingToDeploy")
          /\ \A h \in DOMAIN handles : handles[h].request = NoRequest

\* the class is not skipped but already published, nothing else is wanted:
\* planning has failed and a handle has seen the failure
C1_Witness ==
    /\ pc = "done"
    /\ nodeClass = "published"
    /\ deployment.returned
    /\ bootstrap.returned
    /\ txRequestCell.err = "NothingToDeploy"
    /\ \E h \in DOMAIN handles : handles[h].tx = "failed"

\* the steps the options, the constructor and the node ask for, counted from
\* the inputs alone
C2_Steps ==
    (IF ~options.skipClassRegistration /\ nodeClass = "absent" THEN 1 ELSE 0)
    + (IF ~options.skipPublicDeployment THEN 1 ELSE 0)
    + (IF constructorArtifact /\ ~options.skipInitialization THEN 1 ELSE 0)

\* C2: for every combination of the three skip flags, constructor or none,
\* class published or not, the number of planned calls is the number of
\* non-skipped applicable steps, in the two returned sub-plans and in the
\* request; with all three flags set, no constructor and a descriptor that
\* was built, planning ends in the nothing-to-deploy error.
C2_SkipFlagCompleteness ==
    /\ txRequestCell.st = "resolved" =>
          Len(txRequestCell.val.calls) = C2_Steps
    /\ (deployment.returned /\ bootstrap.returned) =>
          Len(deployment.calls) + Len(bootstrap.calls) = C2_Steps
    /\ ( /\ pc = "done"
         /\ contractCell.st = "resolved"
         /\ options.skipClassRegistration
         /\ options.skipPublicDeployment
         /\ options.skipInitialization
         /\ ~constructorArtifact ) =>
          txRequestCell = Rejected(NoRequest, "NothingToDeploy")

\* a constructor that is skipped, a class that has to be registered, no public
\* deployment: one call
C2_Witness ==
    /\ txRequestCell.st = "resolved"
    /\ constructorArtifact
    /\ options.skipInitialization
    /\ options.skipPublicDeployment
    /\ nodeClass = "absent"
    /\ Len(txRequestCell.val.calls) = 1

C3_Rank(fn) ==
    IF fn = "register" THEN 1 ELSE IF fn = "deploy" THEN 2 ELSE 3

C3_Ordered(calls) ==
    \A i, j \in DOMAIN calls :
        i < j => C3_Rank(calls[i].fn) < C3_Rank(calls[j].fn)

\* C3: in every request, in the cell or as a handle's account received it, a
\* register-class call precedes a deploy-instance call, which precedes a
\* constructor call, whichever of the three are present.
C3_Ordering ==
    /\ txRequestCell.st = "resolved" => C3_Ordered(txRequestCell.val.calls)
    /\ \A h \in DOMAIN handles : C3_Ordered(handles[h].request.calls)

C3_Witness ==
    /\ \E h \in DOMAIN handles :
          Fns(handles[h].request.calls) = <<"register", "deploy", "constructor">>

\* C4: for one DeployMethod the descriptor build body and the #txRequest body
\* are each entered at most once, and exactly once as soon as send() has been
\* called; each node query of planning is issued at most once; every accessor
\* sees the one result: a submitted handle holds the request of the cell, a
\* failed one its error, the request registers the descriptor of the cell and
\* a resolved contract has the descriptor's address.
C4_ComputeOnce ==
    /\ contractRuns <= 1
    /\ txRequestRuns <= 1
    /\ sendCalls >= 1 => (contractRuns = 1 /\ txRequestRuns = 1)
    /\ nodeQueries.getContractClass <= 1
    /\ \A a \in ProtocolContractAddress : nodeQueries.getContract[a] <= 1
    /\ txRequestCell.st = "resolved" =>
          txRequestCell.val.registerContracts = <<contractCell.val>>
    /\ \A h \in DOMAIN handles :
          /\ Submitted(h) =>
                (txRequestCell.st = "resolved" /\ handles[h].request = txRequestCell.val)
          /\ handles[h].tx = "failed" =>
                (txRequestCell.st = "rejected" /\ handles[h].err = txRequestCell.err)
          /\ handles[h].contract.st = "resolved" =>
                handles[h].contract.val.address = contractCell.val.address

\* two send() calls whose requests were both submitted, a wait() that
\* resolved the contract, and every node query of planning issued
C4_Witness ==
    /\ sendCalls = 2
    /\ \A h \in DOMAIN handles : Submitted(h)
    /\ \E w \in DOMAIN waits : waits[w].pc = "done"
    /\ nodeQueries.getContractClass = 1
    /\ nodeQueries.getContract[ContractClassRegisterer] = 1
    /\ nodeQueries.getContract[ContractInstanceDeployer] = 1

Done(h) == {w \in WaitsOn(h) : waits[w].pc = "done"}

\* C5 as stated: however often wait() is called on a handle, the transaction
\* is not resubmitted, the underlying receipt wait runs once, the post-deploy
\* constructor runs once, and the results are equal.
C5_Original ==
    /\ sendCalls = Len(handles)
    /\ submissions = Cardinality({h \in DOMAIN handles : Submitted(h)})
    /\ \A h \in DOMAIN handles :
          /\ handles[h].receiptWaits <= 1
          /\ handles[h].ctorCalls <= 1
          /\ \A v, w \in Done(h) :
                /\ waits[v].receipt = waits[w].receipt
                /\ deployed(v) = deployed(w)

\* C5, amended: however often wait() is called on a handle, the transaction
\* is submitted once per send(), the post-deploy constructor runs at most
\* once, and the waits that return hold equal receipts and the one contract
\* the handle resolved; the underlying receipt wait runs once per wait() call.
C5_IdempotentWait ==
    /\ sendCalls = Len(handles)
    /\ submissions = Cardinality({h \in DOMAIN handles : Submitted(h)})
    /\ \A h \in DOMAIN handles :
          /\ handles[h].receiptWaits = Cardinality(WaitsOn(h))
          /\ handles[h].ctorCalls <= 1
          /\ \A v, w \in Done(h) :
                /\ waits[v].receipt = waits[w].receipt
                /\ waits[v].receipt = Receipt(h)
                /\ deployed(v) = deployed(w)
                /\ deployed(v) = handles[h].contract.val

\* two wait() calls on one handle have both returned
C5_Witness ==
    \E h \in DOMAIN handles :
        /\ Cardinality(Done(h)) = 2
        /\ handles[h].receiptWaits = 2
        /\ handles[h].ctorCalls = 1

C7_HasDeployCall == \E i \in DOMAIN deployment.calls : deployment.calls[i].fn = "deploy"

\* C7 as stated: once deployInstance has run its check on a resolved
\* instance deployer, with universalDeploy=false and a descriptor whose deployer differs from the
\* sender's address planning has failed with the deployer-mismatch error and
\* holds no deploy call; with universalDeploy=true the difference does not
\* fail.
C7_Original ==
    ( /\ sender # NoAddress
      /\ "deploy" \in Methods(deployerContract.artifact)
      /\ contractCell.val.deployer # sender ) =>
        IF options.universalDeploy
        THEN txRequestCell.err # "DeployerMismatch"
        ELSE /\ txRequestCell = Rejected(NoRequest, "DeployerMismatch")
             /\ ~C7_HasDeployCall

\* C7, amended: once deployInstance has run its check, with a descriptor
\* whose deployer is not the zero address and differs from the sender's
\* address planning has failed with the deployer-mismatch error and holds no
\* deploy call; with a descriptor whose deployer is the zero address, which is
\* what universalDeploy=true records, the difference does not fail; nor does
\* a deployer equal to the sender.
C7_DeployerCheck ==
    sender # NoAddress =>
        LET deployer == contractCell.val.deployer
        IN  /\ options.universalDeploy => deployer = ZERO
            /\ (deployer # ZERO /\ deployer # sender) =>
                  /\ txRequestCell = Rejected(NoRequest, "DeployerMismatch")
                  /\ ~C7_HasDeployCall
            /\ (deployer = ZERO \/ deployer = sender) =>
                  txRequestCell.err # "DeployerMismatch"

\* the account changed between the descriptor build and deployInstance, both
\* addresses non-zero
C7_Witness ==
    /\ ~options.universalDeploy
    /\ sender # NoAddress
    /\ sender # ZERO
    /\ contractCell.val.deployer # ZERO
    /\ contractCell.val.deployer # sender
    /\ txRequestCell.err = "DeployerMismatch"

\* C8: when the class id of the derived instance differs from the one
\* computed from the artifact, the descriptor build rejects with the
\* class-mismatch error; no ContractInfo, no request and no
\* resolved contract ever exist, nothing is submitted, and planning fails
\* with the same error.
C8_ClassMismatchFatal ==
    instanceClassId # ArtifactClassId =>
        /\ contractCell.st # "resolved"
        /\ contractCell.val = NoContract
        /\ Settled(contractCell) => contractCell.err = "ContractClassMismatch"
        /\ txRequestCell.st # "resolved"
        /\ txRequestCell.val = NoRequest
        /\ Settled(txRequestCell) => txRequestCell.err = "ContractClassMismatch"
        /\ submissions = 0
        /\ \A h \in DOMAIN handles :
              /\ handles[h].request = NoRequest
              /\ handles[h].contract.st = "notStarted"
        /\ \A w \in DOMAIN waits : waits[w].pc # "done"

\* a mismatching artifact, two send() calls and a wait(): all failed
C8_Witness ==
    /\ instanceClassId # ArtifactClassId
    /\ Len(handles) = 2
    /\ \A h \in DOMAIN handles : handles[h].err = "ContractClassMismatch"
    /\ \E w \in DOMAIN waits : waits[w].err = "ContractClassMismatch"

C9_Fatal ==
    {"ContractClassMismatch", "DeployerMismatch", "NothingToDeploy",
     "NotRegistered", "ArtifactNotFound"}

\* C9 as stated: when a fatal planning condition has been raised, send() has
\* returned no handle and account.sendTransaction has not been called.
C9_Original ==
    (txRequestCell.st = "rejected" /\ txRequestCell.err \in C9_Fatal) =>
        (handles = <<>> /\ sendCalls = 0)

\* the fatal condition a stage has detected, or "none"
C9_Detected ==
    IF contractCell.st = "rejected" THEN contractCell.err
    ELSE IF registerer.err \in {"NotRegistered", "ArtifactNotFound"} THEN registerer.err
    ELSE IF deployerContract.err \in {"NotRegistered", "ArtifactNotFound"}
    THEN deployerContract.err
    ELSE IF /\ sender # NoAddress
            /\ contractCell.val.deployer \notin {ZERO, sender}
    THEN "DeployerMismatch"
    ELSE IF /\ pc = "done"
            /\ deployment.returned
            /\ bootstrap.returned
            /\ Len(deployment.calls) + Len(bootstrap.calls) = 0
    THEN "NothingToDeploy"
    ELSE "none"

\* C9, amended: a fatal planning condition is raised in the step that
\* detects it and before anything is submitted: from then on the request
\* promise that send() handed to account.sendTransaction is not fulfilled,
\* it is rejected with that error as soon as the #txRequest body has seen it,
\* no request object exists, no transaction is submitted, and no wait()
\* returns; send() itself has returned its handle, and the error reaches the
\* caller through the handle.
C9_FatalBeforeSubmission ==
    C9_Detected # "none" =>
        /\ C9_Detected \in C9_Fatal
        /\ txRequestCell.st # "resolved"
        /\ txRequestCell.val = NoRequest
        /\ pc \in {"contract", "done"}
        /\ pc = "done" => txRequestCell = Rejected(NoRequest, C9_Detected)
        /\ submissions = 0
        /\ sendCalls = Len(handles)
        /\ sendCalls >= 1
        /\ \A h \in DOMAIN handles :
              /\ handles[h].tx \in {"requested", "failed"}
              /\ handles[h].request = NoRequest
              /\ handles[h].tx = "failed" => handles[h].err = C9_Detected
        /\ \A w \in DOMAIN waits :
              /\ waits[w].pc \in {"receipt", "failed"}
              /\ waits[w].pc = "failed" => waits[w].err = C9_Detected

\* the class registerer is missing on the node: the handle send() returned
\* has failed with that error, and so has a wait() on it
C9_Witness ==
    /\ C9_Detected = "NotRegistered"
    /\ \E h \in DOMAIN handles : handles[h].tx = "failed"
    /\ \E w \in DOMAIN waits : waits[w].pc = "failed"
    /\ submissions = 0

C10_Resolution(result, address) ==
    result # NotFetched =>
        LET entry == nodeContracts[address]
        IN  /\ entry \in ContractEntries
            /\ result.address = address
            /\ nodeQueries.getContract[address] = 1
            /\ entry = NoInstance =>
                  (~result.ok /\ result.err = "NotRegistered"
                              /\ result.artifact = NoArtifact)
            /\ (entry # NoInstance /\ entry \notin {RegistererClassId, DeployerClassId}) =>
                  (~result.ok /\ result.err = "ArtifactNotFound"
                              /\ result.artifact = NoArtifact)
            /\ entry = RegistererClassId =>
                  (result.ok /\ result.artifact = "artifact:ClassRegisterer")
            /\ entry = DeployerClassId =>
                  (result.ok /\ result.artifact = "artifact:InstanceDeployer")
            /\ ~result.ok => txRequestCell = Rejected(NoRequest, result.err)

C10_Outcomes ==
    /\ C10_Resolution(registerer, ContractClassRegisterer)
    /\ C10_Resolution(deployerContract, ContractInstanceDeployer)

\* a step in which a protocol contract is resolved asks the node for the
\* contract at that one address and touches no handle, wait or transaction
C10_ReadOnly ==
    \A a \in ProtocolContractAddress :
        LET before == IF a = ContractClassRegisterer THEN registerer
                      ELSE deployerContract
            after == IF a = ContractClassRegisterer THEN registerer'
                     ELSE deployerContract'
        IN  after # before =>
                /\ nodeQueries' = [nodeQueries EXCEPT !.getContract[a] = @ + 1]
                /\ UNCHANGED <<handles, waits, sendCalls, submissions>>

\* C10: resolving a protocol contract fails with the not-registered error
\* when the node holds no instance at the address, with the
\* artifact-not-found error when the instance's class id is neither canonical
\* one, and otherwise yields a handle at that address bound to the artifact
\* whose class id matches; the step that resolves it issues one getContract
\* query and neither calls account.sendTransaction nor submits anything.
C10_ProtocolContractResolution ==
    []C10_Outcomes /\ [][C10_ReadOnly]_vars

\* the registerer resolved to its artifact, the instance deployer's class id
\* matched no canonical artifact
C10_Witness ==
    /\ registerer.ok
    /\ registerer.artifact = "artifact:ClassRegisterer"
    /\ nodeContracts[ContractInstanceDeployer] = ForeignClassId
    /\ deployerContract.err = "ArtifactNotFound"

(* ------------------ claims: deployment, continued --------------------- *)

\* C12: the contract a wait() or deployed() returns, which it does only for
\* a mined transaction, is the one the post-deploy constructor built, once,
\* for the address computed for the descriptor, and that address is the
\* address of the single ContractInfo in registerContracts of the request
\* that was submitted.
C12_AddressConsistency ==
    /\ txRequestCell.st = "resolved" =>
          /\ Len(txRequestCell.val.registerContracts) = 1
          /\ txRequestCell.val.registerContracts[1].address =
                InstanceAddress(contractCell.val.deployer)
    /\ \A w \in DOMAIN waits :
          waits[w].pc = "done" =>
              LET h == waits[w].h
              IN  /\ handles[h].tx = "mined"
                  /\ deployed(w).built = 1
                  /\ deployed(w).address = contractCell.val.address
                  /\ deployed(w).address = InstanceAddress(contractCell.val.deployer)
                  /\ Len(handles[h].request.registerContracts) = 1
                  /\ handles[h].request.registerContracts[1].address =
                        deployed(w).address

\* a deployment from an account that is its deployer has been confirmed and
\* its contract returned
C12_Witness ==
    \E w \in DOMAIN waits :
        /\ waits[w].pc = "done"
        /\ contractCell.val.deployer # ZERO
        /\ deployed(w).address = InstanceAddress(contractCell.val.deployer)

\* C13: account.sendTransaction is called once for each send() and hands
\* the request to the network at most once for it, rejected or not; the
\* #txRequest body runs once and issues each node query at most once; a
\* query that fails rejects the request promise with the node's error, and
\* nothing is queried or submitted after it; a handle that has failed holds
\* the error of the request promise or the rejection of its one submission,
\* and a wait() that failed without a receipt holds the error of its handle.
C13_NoRetries ==
    /\ sendCalls = Len(handles)
    /\ txRequestRuns <= 1
    /\ nodeQueries.getContractClass <= 1
    /\ \A a \in ProtocolContractAddress : nodeQueries.getContract[a] <= 1
    /\ submissions <= sendCalls
    /\ submissions =
          Cardinality({h \in DOMAIN handles :
                          \/ Submitted(h)
                          \/ handles[h].err = "SubmissionRejected"})
    /\ ( \/ nodeQueries.getContractClass = 1 /\ nodeClass = Unknown
         \/ \E a \in ProtocolContractAddress :
               nodeQueries.getContract[a] = 1 /\ nodeContracts[a] = Unknown ) =>
          /\ txRequestCell = Rejected(NoRequest, "NodeError")
          /\ pc = "done"
          /\ submissions = 0
    /\ \A h \in DOMAIN handles :
          handles[h].tx = "failed" =>
              IF txRequestCell.st = "rejected"
              THEN handles[h].err = txRequestCell.err
              ELSE handles[h].err = "SubmissionRejected"
    /\ \A w \in DOMAIN waits :
          (waits[w].pc = "failed" /\ waits[w].receipt = NoReceipt) =>
              waits[w].err = handles[waits[w].h].err

\* the instance deployer could not be queried, after the class registerer
\* was: the handle and a wait() on it have failed with the node's error
C13_Witness ==
    /\ nodeQueries.getContract[ContractClassRegisterer] = 1
    /\ nodeQueries.getContract[ContractInstanceDeployer] = 1
    /\ nodeContracts[ContractInstanceDeployer] = Unknown
    /\ \E w \in DOMAIN waits :
          /\ waits[w].pc = "failed"
          /\ waits[w].err = "NodeError"
          /\ handles[waits[w].h].err = "NodeError"

C15_HasRegister(req) ==
    \E i \in DOMAIN req.calls : req.calls[i].fn = "register"

C15_Accompanied(req) ==
    req.capsules =
        IF C15_HasRegister(req) THEN <<"packedBytecode">> ELSE <<>>

\* C15: the capsules of a request are the one encoded bytecode when its
\* calls hold a register-class call and none otherwise, in the request the
\* promise resolved to and in the one a handle's account submitted; with a
\* constructor, default options and a class the node does not hold, the
\* request has the three calls and one capsule.
C15_Capsules ==
    /\ txRequestCell.st = "resolved" => C15_Accompanied(txRequestCell.val)
    /\ \A h \in DOMAIN handles :
          handles[h].request # NoRequest => C15_Accompanied(handles[h].request)
    /\ ( /\ txRequestCell.st = "resolved"
         /\ constructorArtifact
         /\ options \in [universalDeploy : {FALSE}, skipClassRegistration : {FALSE},
                         skipPublicDeployment : {FALSE}, skipInitialization : {FALSE}]
         /\ nodeClass = "absent" ) =>
          /\ Fns(txRequestCell.val.calls) = <<"register", "deploy", "constructor">>
          /\ Len(txRequestCell.val.capsules) = 1

\* the end-to-end scenario, submitted
C15_Witness ==
    /\ constructorArtifact
    /\ ~options.universalDeploy
    /\ nodeClass = "absent"
    /\ \E h \in DOMAIN handles :
          /\ Submitted(h)
          /\ Len(handles[h].request.calls) = 3
          /\ Len(handles[h].request.capsules) = 1

\* the deploy-instance calls planned
C17_DeployCalls ==
    {deployment.calls[i] : i \in {j \in DOMAIN deployment.calls :
                                      deployment.calls[j].fn = "deploy"}}

\* deployInstance has got its deployer contract and made its check
C17_Checked ==
    /\ sender # NoAddress
    /\ "deploy" \in Methods(deployerContract.artifact)

\* C17 as stated: the flag of the deploy-instance call is
\* options.universalDeploy, and planning fails on a deployer that differs
\* from the sender exactly when options.universalDeploy is false.
C17_Original ==
    /\ \A call \in C17_DeployCalls :
          call.isUniversalDeploy = options.universalDeploy
    /\ C17_Checked =>
          ( txRequestCell.err = "DeployerMismatch" <=>
              (~options.universalDeploy /\ contractCell.val.deployer # sender) )

\* C17, amended: the flag of the deploy-instance call tells whether the
\* deployer recorded in the descriptor is the zero address: it is set when
\* options.universalDeploy is true, and also when it is false and the
\* account's address was the zero address when the descriptor was built;
\* planning fails on a deployer that differs from the sender exactly when
\* the recorded deployer is not the zero address.
C17_FlagFromDeployer ==
    /\ \A call \in C17_DeployCalls :
          /\ call.isUniversalDeploy = (contractCell.val.deployer = ZERO)
          /\ options.universalDeploy => call.isUniversalDeploy
    /\ C17_Checked =>
          ( txRequestCell.err = "DeployerMismatch" <=>
              (contractCell.val.deployer # ZERO /\ contractCell.val.deployer # sender) )

\* without universalDeploy, from an account whose address is the zero
\* address: the call is planned with the flag set
C17_Witness ==
    /\ ~options.universalDeploy
    /\ sender = ZERO
    /\ \E call \in C17_DeployCalls : call.isUniversalDeploy

(* ---------------------- claims: wallet connection --------------------- *)

\* the request() invocations that exist: each operation that has created an
\* AbortController, in flight or just returned
Requests ==
    {op \in {ops[i] : i \in DOMAIN ops} \cup {returned} : op.abort # "none"}

\* the request() of the operation has exited
Exited(op) == Completed(op) \/ op.pc \in {"sel.none", "sel.account"}

\* C11: for every invocation of request(), made by the application or by
\* reconnect(), the AbortController it created is aborted once the request
\* has exited, whether it returned a result, the wallet rejected it, there
\* was no session, or a step threw, the confirmation callback included.
C11_Original ==
    \A op \in Requests : Exited(op) => op.abort = "aborted"

\* C14 as stated: a reconnect() whose confirmation callback did not throw
\* returns the account and has made it the selected one when a session
\* existed and the wallet reported an address, and otherwise has set the
\* selected account to undefined and returns undefined; connect(), once its
\* modal has connected, returns that account, or fails with "No accounts
\* found" when there is none.
C14_Original ==
    ( /\ returned.kind \in {"reconnect", "connect"}
      /\ returned.err \notin {"ConnectRejected", "CallbackThrew"} ) =>
        IF returned.address # NoAddress
        THEN /\ returned.pc = "done"
             /\ returned.result = returned.address
             /\ getAccount = returned.address
        ELSE /\ getAccount = NoAddress
             /\ IF returned.kind = "reconnect"
                THEN returned.pc = "done" /\ returned.result = NoAddress
                ELSE returned.pc = "failed" /\ returned.err = "No accounts found"

\* the errors with which the request() inside #getSelectedAccount fails
C14_RequestErrors == {"no session", "WalletRejected", "CallbackThrew"}

\* what a reconnect(), alone or inside connect(), has done when it returns
C14_Results ==
    ( /\ returned.kind \in {"reconnect", "connect"}
      /\ returned.err # "ConnectRejected" ) =>
        IF returned.err \in C14_RequestErrors
        THEN /\ returned.pc = "failed"
             /\ returned.address = NoAddress
             /\ returned.abort # "none"
        ELSE IF returned.address # NoAddress
        THEN /\ returned.pc = "done"
             /\ returned.forwarded = 1
             /\ returned.result = returned.address
             /\ getAccount = returned.address
        ELSE /\ getAccount = NoAddress
             /\ IF returned.kind = "reconnect"
                THEN returned.pc = "done" /\ returned.result = NoAddress
                ELSE returned.pc = "failed" /\ returned.err = "No accounts found"

\* a reconnect() that fails with its request's error has not touched the
\* selected account
C14_FailureKeeps ==
    ( /\ returned'.kind \in {"reconnect", "connect"}
      /\ returned'.err \in C14_RequestErrors ) =>
        accountObservable' = accountObservable

\* C14, amended: reconnect() returns the connected account and has made it
\* the selected account when it found a session and the wallet answered its
\* aztec_accounts request with at least one address; it has set the selected
\* account to undefined and returns undefined when it found no session or
\* the wallet answered with no address; when that request fails (no session
\* any more, rejected by the wallet, confirmation callback threw) it fails
\* with the request's error and leaves the selected account as it was.
\* connect() returns the account reconnect() yields, fails with "No accounts
\* found" when reconnect() yields none, and fails as reconnect() fails.
C14_Reconnect ==
    []C14_Results /\ [][C14_FailureKeeps]_vars

\* a connect() has failed for want of accounts, through a wallet that was
\* asked and answered with an empty list
C14_Witness ==
    /\ returned.kind = "connect"
    /\ returned.err = "No accounts found"
    /\ returned.forwarded = 1
    /\ getAccount = NoAddress

\* C16: every request() has called the confirmation callback once if its
\* method is not in METHODS_NOT_REQUIRING_CONFIRMATION and never if it is,
\* and has done so by the time it forwards the request to the wallet, which
\* it does at most once and not at all when the callback threw; a request()
\* that found no session has failed with "no session" and has forwarded
\* nothing.
C16_ConfirmationOnce ==
    \A op \in Requests :
        /\ op.confirmations =
              IF op.method \in METHODS_NOT_REQUIRING_CONFIRMATION THEN 0 ELSE 1
        /\ op.forwarded <= 1
        /\ op.pc \in {"req.modal", "req.getSession"} => op.forwarded = 0
        /\ op.pc = "req.wallet" => op.forwarded = 1
        /\ op.err = "CallbackThrew" => op.forwarded = 0
        /\ op.err = "no session" =>
              /\ op.pc = "failed"
              /\ op.forwarded = 0
              /\ op = returned => ~session
        /\ (op = returned /\ op.kind = "request" /\ op.pc = "done") =>
              op.forwarded = 1

\* a request for a listed method has returned its result: forwarded, and the
\* callback never called
C16_Witness ==
    /\ returned.kind = "request"
    /\ returned.pc = "done"
    /\ returned.method \in METHODS_NOT_REQUIRING_CONFIRMATION
    /\ returned.confirmations = 0
    /\ returned.forwarded = 1

\* C18: when disconnect() returns the selected account is undefined, and no
\* reconnect() or accountsChanged handler that was in flight when a
\* disconnect() completed, or when the session was deleted or expired, sets
\* an account afterwards.
C18_Original ==
    /\ (returned.kind = "disconnect" /\ returned.pc = "done") =>
          getAccount = NoAddress
    /\ ( /\ returned.kind \in {"reconnect", "connect", "event"}
         /\ returned.pc = "done"
         /\ returned.result # NoAddress ) => ~returned.stale

\* C19: when the handlers of the accountsChanged events received since the
\* last connect(), reconnect(), disconnect() or loss of the session have all
\* returned, the selected account is the one of the event received last.
C19_Original ==
    ( /\ lastAccountsChanged # NoAddress
      /\ \A i \in DOMAIN ops : ops[i].kind = "request" ) =>
        getAccount = lastAccountsChanged

====
